---- MODULE Spec2Model ----
(***************************************************************************)
(* Model of SubMarine_40.680mHz.ino: the OOK pulse engine (sendPulses),    *)
(* the frame encoder (sendFrame), the command codec and sequencer          *)
(* (sendCommand, sendStop) and the serial input loop (setup).              *)
(*                                                                         *)
(* The target is the Arduino Nano (ATmega328p) named in the source: int is *)
(* 16 bits, long is 32 bits, millis() is a wrapping unsigned long.  A      *)
(* 32-bit value is kept as its two's-complement signed reading, so that    *)
(* "long start_time = millis()" keeps the bits, and unsigned comparison is *)
(* ULess.                                                                  *)
(***************************************************************************)
EXTENDS Integers, Sequences, FiniteSets, TLC

VARIABLES
    pc,              \* position in setup / sendCommand / the harness
    clock,           \* millis(), as the signed reading of its 32 bits
    carrier,         \* clockGenerator output enabled
    toggleUs,        \* microseconds one enableOutputs() call takes (an I2C write)
    command,         \* sendCommand: command (raw uint8_t value)
    hold_time_ms,    \* sendCommand: hold_time_ms
    frame,           \* sendCommand: frame
    start_time,      \* sendCommand: start_time
    i,               \* sendCommand: i of the stop loop
    fpc,             \* position in sendFrame ("none" when not inside it)
    frameArg,        \* sendFrame: frame (its parameter)
    currentPosition, \* sendFrame: currentPosition
    fi,              \* sendFrame: i of the data loop
    ret,             \* where sendFrame returns to
    via,             \* who called sendFrame: "sendCommand", "sendStop", "harness"
    pulses,          \* pulse types emitted by the sendFrame call in progress / last finished
    frameUs,         \* microseconds that sendFrame call has taken: timed waits and toggles
    lastFrame,       \* last frame completely transmitted, NoFrame before the first
    log,             \* events (delays and frames) of the sendCommand call in progress / last finished
    holdCount,       \* executions of the hold loop body in that call
    elapsed,         \* true milliseconds since that call's entry
    entryClock,      \* millis() at that call's entry
    nCalls,          \* sendCommand calls started
    nIdle,           \* passes of the input loop over which the clock advanced
    reported,        \* error lines printed by the constructor
    read,            \* setup: read, the character last taken from Serial.read()
    ops,             \* carrier operations of the sendPulses call in progress / last finished
    sinceFrame,      \* milliseconds waited since the last frame ended (kept up to 70)
    ppc,             \* position in a sendPulses call followed step by step
    pulseType,       \* sendPulses: pulseType
    pulseCount,      \* sendPulses: pulseCount
    pi               \* sendPulses: i

vars == <<pc, clock, carrier, toggleUs, command, hold_time_ms, frame, start_time, i,
          fpc, frameArg, currentPosition, fi, ret, via, pulses, frameUs, lastFrame, log,
          holdCount, elapsed, entryClock, nCalls, nIdle, reported, read, ops, sinceFrame,
          ppc, pulseType, pulseCount, pi>>

sendCommandVars == <<command, hold_time_ms, frame, start_time, i>>
sendFrameVars == <<fpc, frameArg, currentPosition, fi, ret, via, pulses, frameUs, ops>>
historyVars == <<lastFrame, log, holdCount, elapsed, entryClock, nCalls, sinceFrame>>
sendPulsesVars == <<ppc, pulseType, pulseCount, pi>>
setupVars == <<read, nIdle>>

----------------------------------------------------------------------------
(* Bounds of the model *)

\* an enableOutputs() call takes 0..MaxToggleSteps times ToggleStepUs microseconds;
\* 400 us is the SHORT pulse length the source documents
MaxToggleSteps == 5
\* hold loop iterations followed in one call (3000 ms of hold needs 66)
MaxHoldIter == 68
\* sendCommand calls followed from the input loop
MaxCalls == 2
\* passes of the input loop over which the clock advances
MaxIdle == 2

----------------------------------------------------------------------------
(* Machine arithmetic *)

IntBits == 16
MaxLong == 2147483647
MinLong == -MaxLong - 1

RECURSIVE Pow2(_)
Pow2(n) == IF n = 0 THEN 1 ELSE 2 * Pow2(n - 1)

\* a & b on non-negative values
RECURSIVE BitAnd(_, _)
BitAnd(a, b) ==
    IF a = 0 \/ b = 0 THEN 0
    ELSE 2 * BitAnd(a \div 2, b \div 2) + (IF a % 2 = 1 /\ b % 2 = 1 THEN 1 ELSE 0)

\* a | b on non-negative values
RECURSIVE BitOr(_, _)
BitOr(a, b) ==
    IF a = 0 THEN b
    ELSE IF b = 0 THEN a
    ELSE 2 * BitOr(a \div 2, b \div 2) + (IF a % 2 = 1 \/ b % 2 = 1 THEN 1 ELSE 0)

\* conversion to uint8_t / uint16_t: the value modulo 2^8 / 2^16
ToUint8(x) == x % 256
ToUint16(x) == x % 65536

\* conversion of a value to int (IntBits wide): the low bits, read as two's complement
ToInt(x) ==
    LET m == x % Pow2(IntBits)
    IN  IF m >= Pow2(IntBits - 1) THEN m - Pow2(IntBits) ELSE m

\* a | b on ints: the OR of the two's-complement bit patterns, read back as int
IntOr(a, b) == ToInt(BitOr(a % Pow2(IntBits), b % Pow2(IntBits)))

\* ~x on int
IntNot(x) == -x - 1

\* a + d on 32 bits, wrapping, for signed readings a and -MaxLong <= d <= MaxLong
Add32(a, d) ==
    IF d >= 0
    THEN IF a > MaxLong - d THEN ((a - MaxLong) + (d - 1)) + MinLong ELSE a + d
    ELSE IF a < MinLong - d THEN ((a - MinLong) + (d + 1)) + MaxLong ELSE a + d

\* a < b with both operands converted to unsigned long
ULess(a, b) == IF (a >= 0) = (b >= 0) THEN a < b ELSE a >= 0

----------------------------------------------------------------------------
(* Pulse types and commands *)

PULSE_SHORT == [enableWait |-> FALSE, waitDuration |-> 0]
PULSE_LONG == [enableWait |-> TRUE, waitDuration |-> 450]
PULSE_SYNC == [enableWait |-> TRUE, waitDuration |-> 900]

STOP == 0
FORWARD == 1
BACK == 2
LEFT == 4
RIGHT == 8
UP == 16
DOWN == 32
CMD1 == 64
CMD2 == 128

SubmarineCommand == {STOP, FORWARD, BACK, LEFT, RIGHT, UP, DOWN, CMD1, CMD2}

\* a plausible slip: the bytes of the stop frame are swapped
StopFrameSwapped == (65280 % 256) * 256 + (65280 \div 256)
\* the frame sendStop passes to sendFrame
StopFrame == 65280
\* the argument of every delay() between frames
InterFrameMs == 35
\* a plausible slip: the stop loop runs twice
StopRepeatsTwo == 3 - 1
\* the passes of the stop loop of sendCommand
StopRepeats == 3
\* the hold time setup passes to sendCommand
LoopHoldMs == 3000
\* the hold time sendCommand defaults to
DefaultHoldMs == 10

\* the time one enableOutputs() call may take
ToggleStepUs == 80
ToggleTimes == {k * ToggleStepUs : k \in 0..MaxToggleSteps}

NoFrame == -1
NoCommand == -1

----------------------------------------------------------------------------
(* sendPulses: the carrier operations of pulseCount pulses of one type *)

OpEnable == [op |-> "enable", us |-> 0]
OpDisable == [op |-> "disable", us |-> 0]
OpWait(us) == [op |-> "wait", us |-> us]

RECURSIVE SendPulsesOps(_, _)
SendPulsesOps(type, count) ==
    IF count <= 0 THEN <<>>
    ELSE (IF type.enableWait
          THEN <<OpEnable, OpWait(type.waitDuration),
                 OpDisable, OpWait(type.waitDuration)>>
          ELSE <<OpEnable, OpDisable>>)
         \o SendPulsesOps(type, count - 1)

\* the carrier after a sequence of operations
RECURSIVE CarrierAfter(_, _)
CarrierAfter(c, os) ==
    IF os = <<>> THEN c
    ELSE CarrierAfter(IF Head(os).op = "enable" THEN TRUE
                      ELSE IF Head(os).op = "disable" THEN FALSE
                      ELSE c,
                      Tail(os))

\* the microseconds delayMicroseconds() waits in a sequence of operations
RECURSIVE WaitTotal(_)
WaitTotal(os) == IF os = <<>> THEN 0 ELSE Head(os).us + WaitTotal(Tail(os))

\* the enableOutputs() calls in a sequence of operations
RECURSIVE ToggleCount(_)
ToggleCount(os) ==
    IF os = <<>> THEN 0
    ELSE (IF Head(os).op = "wait" THEN 0 ELSE 1) + ToggleCount(Tail(os))

\* one sendPulses call inside sendFrame
SendPulses(type, count) ==
    /\ ops' = SendPulsesOps(type, count)
    /\ carrier' = CarrierAfter(carrier, ops')
    /\ frameUs' = frameUs + WaitTotal(ops') + toggleUs * ToggleCount(ops')
    /\ pulses' = pulses \o [k \in 1..count |-> type]

----------------------------------------------------------------------------
(* sendPulses followed statement by statement *)

\* entry: the parameters, and i = 0
CallPulses(type, count) ==
    /\ ppc = "none"
    /\ ppc' = "loop"
    /\ pulseType' = type
    /\ pulseCount' = count
    /\ pi' = 0
    /\ ops' = <<>>

\* a plausible slip: the loop condition is i <= pulseCount
PulseLoopOffByOne ==
    /\ ppc = "loop"
    /\ ppc' = IF pi <= pulseCount THEN "enable" ELSE "return"
    /\ UNCHANGED <<carrier, ops, pulseType, pulseCount, pi>>

\* i < pulseCount
PulseLoop ==
    /\ ppc = "loop"
    /\ ppc' = IF pi < pulseCount THEN "enable" ELSE "return"
    /\ UNCHANGED <<carrier, ops, pulseType, pulseCount, pi>>

\* clockGenerator.enableOutputs(true), in either branch
PulseEnable ==
    /\ ppc = "enable"
    /\ carrier' = TRUE
    /\ ops' = Append(ops, OpEnable)
    /\ ppc' = IF pulseType.enableWait THEN "wait_on" ELSE "disable"
    /\ UNCHANGED <<pulseType, pulseCount, pi>>

\* delayMicroseconds(pulseType.waitDuration) with the outputs enabled
PulseWaitOn ==
    /\ ppc = "wait_on"
    /\ ops' = Append(ops, OpWait(pulseType.waitDuration))
    /\ ppc' = "disable"
    /\ UNCHANGED <<carrier, pulseType, pulseCount, pi>>

\* clockGenerator.enableOutputs(false), in either branch
PulseDisable ==
    /\ ppc = "disable"
    /\ carrier' = FALSE
    /\ ops' = Append(ops, OpDisable)
    /\ ppc' = IF pulseType.enableWait THEN "wait_off" ELSE "inc"
    /\ UNCHANGED <<pulseType, pulseCount, pi>>

\* delayMicroseconds(pulseType.waitDuration) with the outputs disabled
PulseWaitOff ==
    /\ ppc = "wait_off"
    /\ ops' = Append(ops, OpWait(pulseType.waitDuration))
    /\ ppc' = "inc"
    /\ UNCHANGED <<carrier, pulseType, pulseCount, pi>>

\* i++
PulseInc ==
    /\ ppc = "inc"
    /\ pi' = pi + 1
    /\ ppc' = "loop"
    /\ UNCHANGED <<carrier, ops, pulseType, pulseCount>>

sendPulses ==
    /\ PulseLoop \/ PulseEnable \/ PulseWaitOn \/ PulseDisable \/ PulseWaitOff \/ PulseInc
    /\ UNCHANGED <<pc, clock, toggleUs, sendCommandVars, fpc, frameArg, currentPosition, fi,
                   ret, via, pulses, frameUs, historyVars, setupVars, reported>>

----------------------------------------------------------------------------
(* Command codec: the first three statements of sendCommand *)

\* a plausible slip: the shift is done in 8 bits, and loses the byte
ShiftLeft8Lost(msB) == ToUint8(msB * 256)
\* a plausible slip: the high byte repeats the low byte
MsBNotInverted(lsB) == ToUint8(lsB)
\* a plausible slip: msB is a signed char, and the shift sign-extends into nothing
MakeFrameLowOnly(c) == ToUint16(ToUint8(c))
LsB(c) == ToUint8(c)
MsB(lsB) == ToUint8(IntNot(lsB))
\* msB << 8: msB promoted to int, the product read back as int
ShiftLeft8(msB) == ToInt(msB * 256)
MakeFrame(c) == ToUint16(IntOr(ShiftLeft8(MsB(LsB(c))), LsB(c)))

----------------------------------------------------------------------------
(* The clock *)

\* a plausible slip: the pulses wait no time, and a frame takes none
FrameMsNone(us) == 0
\* whole milliseconds millis() advances over a sendFrame call that took us microseconds
FrameMs(us) == us \div 1000

\* a + d for a count of the history, kept at MaxLong where the sum passes it
SatAdd(a, d) == IF a > MaxLong - d THEN MaxLong ELSE a + d

Advance(d) ==
    /\ clock' = Add32(clock, d)
    /\ elapsed' = SatAdd(elapsed, d)

\* the wait since the last frame after d more milliseconds, kept up to 70
GapAfter(g, d) == IF g + d > 2 * InterFrameMs THEN 2 * InterFrameMs ELSE g + d

\* a delay(35) inside sendCommand
Delay(next) ==
    /\ Advance(InterFrameMs)
    /\ sinceFrame' = GapAfter(sinceFrame, InterFrameMs)
    /\ log' = Append(log, [kind |-> "delay", value |-> InterFrameMs, via |-> "delay"])
    /\ pc' = next

----------------------------------------------------------------------------
(* sendFrame *)

\* entry: the parameter, and currentPosition = 0x8000
CallFrame(f, back, who) ==
    /\ fpc = "none"
    /\ fpc' = "sync"
    /\ frameArg' = f
    /\ currentPosition' = 32768
    /\ fi' = 0
    /\ ret' = back
    /\ via' = who
    /\ pulses' = <<>>
    /\ frameUs' = 0
    /\ ops' = <<>>
    /\ pc' = "in_frame"

\* a plausible slip: one SYNC pulse, as the doc comment of sendFrame says
FrameSyncOne ==
    /\ fpc = "sync"
    /\ SendPulses(PULSE_SYNC, 1)
    /\ fi' = 0
    /\ fpc' = "data"
    /\ UNCHANGED <<pc, clock, toggleUs, sendPulsesVars, sendCommandVars, frameArg, currentPosition,
                   ret, via, historyVars, setupVars, reported>>

\* sendPulses(PULSE_SYNC, 2), then the data loop starts with i = 0
FrameSync ==
    /\ fpc = "sync"
    /\ SendPulses(PULSE_SYNC, 2)
    /\ fi' = 0
    /\ fpc' = "data"
    /\ UNCHANGED <<pc, clock, toggleUs, sendPulsesVars, sendCommandVars, frameArg, currentPosition,
                   ret, via, historyVars, setupVars, reported>>

\* a plausible slip: the data loop tests the bits least significant first
FrameDataLsbFirst ==
    /\ fpc = "data"
    /\ fi < 16
    /\ SendPulses(IF BitAnd(Pow2(fi), frameArg) > 0 THEN PULSE_LONG ELSE PULSE_SHORT, 1)
    /\ currentPosition' = ToUint16(currentPosition \div 2)
    /\ fi' = fi + 1
    /\ UNCHANGED <<pc, clock, toggleUs, sendPulsesVars, sendCommandVars, fpc, frameArg,
                   ret, via, historyVars, setupVars, reported>>

\* one pass of the data loop
FrameData ==
    /\ fpc = "data"
    /\ fi < 16
    /\ SendPulses(IF BitAnd(currentPosition, frameArg) > 0 THEN PULSE_LONG ELSE PULSE_SHORT, 1)
    /\ currentPosition' = ToUint16(currentPosition \div 2)
    /\ fi' = fi + 1
    /\ UNCHANGED <<pc, clock, toggleUs, sendPulsesVars, sendCommandVars, fpc, frameArg,
                   ret, via, historyVars, setupVars, reported>>

\* a plausible slip: the frame ends with the data loop, without the trailing SHORT
FrameTrailMissing ==
    /\ fpc = "data"
    /\ fi >= 16
    /\ fpc' = "none"
    /\ pc' = ret
    /\ Advance(FrameMs(frameUs))
    /\ lastFrame' = frameArg
    /\ sinceFrame' = 0
    /\ log' = Append(log, [kind |-> "frame", value |-> frameArg, via |-> via])
    /\ UNCHANGED <<carrier, toggleUs, sendPulsesVars, sendCommandVars, frameArg, currentPosition,
                   fi, ret, via, pulses, frameUs, ops, holdCount, entryClock, nCalls, setupVars,
                   reported>>

\* the data loop ends; sendPulses(PULSE_SHORT, 1); return to the caller
FrameTrail ==
    /\ fpc = "data"
    /\ fi >= 16
    /\ SendPulses(PULSE_SHORT, 1)
    /\ fpc' = "none"
    /\ pc' = ret
    /\ Advance(FrameMs(frameUs'))
    /\ lastFrame' = frameArg
    /\ sinceFrame' = 0
    /\ log' = Append(log, [kind |-> "frame", value |-> frameArg, via |-> via])
    /\ UNCHANGED <<toggleUs, sendPulsesVars, sendCommandVars, frameArg, currentPosition, fi, ret, via,
                   holdCount, entryClock, nCalls, setupVars, reported>>

----------------------------------------------------------------------------
(* sendCommand *)

\* entry: lsB, msB, frame and start_time = millis()
CallCommand(c, hold) ==
    /\ command' = c
    /\ hold_time_ms' = hold
    /\ frame' = MakeFrame(c)
    /\ start_time' = clock
    /\ i' = 0
    /\ pc' = "first"
    /\ log' = <<>>
    /\ holdCount' = 0
    /\ elapsed' = 0
    /\ entryClock' = clock
    /\ nCalls' = nCalls + 1
    /\ UNCHANGED <<clock, carrier, toggleUs, sendPulsesVars, sendFrameVars, lastFrame,
                   sinceFrame, nIdle, reported>>

\* start_time + hold_time_ms, a long.  Where the sum leaves the range of long the
\* addition is undefined; the 32-bit add the AVR build emits wraps, and the
\* comparison then reads the sum as unsigned long.
Deadline == Add32(start_time, hold_time_ms)

\* millis() < (start_time + hold_time_ms), compared as unsigned long
HoldCondition == ULess(clock, Deadline)

SendFirst ==
    /\ pc = "first"
    /\ CallFrame(frame, "delay1", "sendCommand")
    /\ UNCHANGED <<clock, carrier, toggleUs, sendPulsesVars, sendCommandVars, historyVars, setupVars, reported>>

Delay1 ==
    /\ pc = "delay1"
    /\ Delay("second")
    /\ UNCHANGED <<carrier, toggleUs, sendPulsesVars, sendCommandVars, sendFrameVars, lastFrame,
                   holdCount, entryClock, nCalls, setupVars, reported>>

\* a plausible slip: the second initial frame is left out
SendSecondSkipped ==
    /\ pc = "second"
    /\ pc' = "while"
    /\ UNCHANGED <<clock, carrier, toggleUs, sendPulsesVars, sendCommandVars, sendFrameVars,
                   historyVars, setupVars, reported>>

SendSecond ==
    /\ pc = "second"
    /\ CallFrame(frame, "while", "sendCommand")
    /\ UNCHANGED <<clock, carrier, toggleUs, sendPulsesVars, sendCommandVars, historyVars, setupVars, reported>>

\* the while condition holds: the body starts with delay(35)
HoldDelay ==
    /\ pc = "while"
    /\ HoldCondition
    /\ holdCount < MaxHoldIter
    /\ holdCount' = holdCount + 1
    /\ Delay("hold_send")
    /\ UNCHANGED <<carrier, toggleUs, sendPulsesVars, sendCommandVars, sendFrameVars, lastFrame,
                   entryClock, nCalls, setupVars, reported>>

HoldSend ==
    /\ pc = "hold_send"
    /\ CallFrame(frame, "while", "sendCommand")
    /\ UNCHANGED <<clock, carrier, toggleUs, sendPulsesVars, sendCommandVars, historyVars, setupVars, reported>>

\* the while condition fails: the stop loop starts with i = 0
HoldExit ==
    /\ pc = "while"
    /\ ~HoldCondition
    /\ i' = 0
    /\ pc' = "stop"
    /\ UNCHANGED <<clock, carrier, toggleUs, sendPulsesVars, command, hold_time_ms, frame, start_time,
                   sendFrameVars, historyVars, setupVars, reported>>

\* i < 3: delay(35)
StopDelay ==
    /\ pc = "stop"
    /\ i < StopRepeats
    /\ Delay("stop_send")
    /\ UNCHANGED <<carrier, toggleUs, sendPulsesVars, sendCommandVars, sendFrameVars, lastFrame,
                   holdCount, entryClock, nCalls, setupVars, reported>>

\* a plausible slip: the stop sequence retransmits the command frame
sendStopCommandFrame ==
    /\ pc = "stop_send"
    /\ CallFrame(frame, "stop_inc", "sendStop")
    /\ UNCHANGED <<clock, carrier, toggleUs, sendPulsesVars, sendCommandVars, historyVars, setupVars, reported>>

\* sendStop()
sendStop ==
    /\ pc = "stop_send"
    /\ CallFrame(StopFrame, "stop_inc", "sendStop")
    /\ UNCHANGED <<clock, carrier, toggleUs, sendPulsesVars, sendCommandVars, historyVars, setupVars, reported>>

\* i++
StopInc ==
    /\ pc = "stop_inc"
    /\ i' = i + 1
    /\ pc' = "stop"
    /\ UNCHANGED <<clock, carrier, toggleUs, sendPulsesVars, command, hold_time_ms, frame, start_time,
                   sendFrameVars, historyVars, setupVars, reported>>

\* i = 3: sendCommand returns
StopExit ==
    /\ pc = "stop"
    /\ i >= StopRepeats
    /\ pc' = "return"
    /\ UNCHANGED <<clock, carrier, toggleUs, sendPulsesVars, sendCommandVars, sendFrameVars, historyVars,
                   setupVars, reported>>

\* back in the caller, the locals of sendCommand are gone
DropLocals ==
    /\ command' = NoCommand
    /\ hold_time_ms' = 0
    /\ frame' = NoFrame
    /\ start_time' = 0
    /\ i' = 0

sendFrame == FrameSync \/ FrameData \/ FrameTrail

sendCommand ==
    \/ SendFirst \/ Delay1 \/ SendSecond
    \/ HoldDelay \/ HoldSend \/ HoldExit
    \/ StopDelay \/ sendStop \/ StopInc \/ StopExit

----------------------------------------------------------------------------
(* setup: the constructor and the input loop *)

\* values Serial.read() returns: -1 (nothing received), f b d u l r, x, F, newline
SerialValues == {-1, 102, 98, 100, 117, 108, 114, 120, 70, 10}

\* conversion of an int to char (signed, 8 bits)
ToChar(x) == LET m == x % 256 IN IF m >= 128 THEN m - 256 ELSE m

\* a plausible slip: the cases of 'd' and 'u' are exchanged
SwitchCommandSwapped(ch) ==
    CASE ch = 102 -> FORWARD
      [] ch = 98  -> BACK
      [] ch = 100 -> UP
      [] ch = 117 -> DOWN
      [] ch = 108 -> LEFT
      [] ch = 114 -> RIGHT
      [] OTHER -> NoCommand
\* the switch of the input loop
SwitchCommand(ch) ==
    CASE ch = 102 -> FORWARD
      [] ch = 98  -> BACK
      [] ch = 100 -> DOWN
      [] ch = 117 -> UP
      [] ch = 108 -> LEFT
      [] ch = 114 -> RIGHT
      [] OTHER -> NoCommand

\* milliseconds that pass over passes of the input loop that start no command:
\* none, one, and some twenty-four days
LongIdle == MaxLong - 1510
IdleTicks == {0, 1, LongIdle}

\* a plausible slip: the constructor ends without enableOutputs(false), and the
\* outputs are on as the chip has them after its setup
ConstructLeavesOn ==
    /\ pc = "construct"
    /\ pc' = "read"
    /\ carrier' = TRUE
    /\ UNCHANGED <<clock, toggleUs, sendPulsesVars, sendCommandVars, sendFrameVars, historyVars,
                   setupVars, reported>>

\* Submarine(): begin() succeeds and the outputs are switched off
Construct ==
    /\ pc = "construct"
    /\ pc' = "read"
    /\ carrier' = FALSE
    /\ UNCHANGED <<clock, toggleUs, sendPulsesVars, sendCommandVars, sendFrameVars, historyVars, setupVars, reported>>

\* a plausible slip: the error is printed, but the while (1) is missing
ConstructFailGoesOn ==
    /\ pc = "construct"
    /\ reported' = reported + 1
    /\ pc' = "read"
    /\ carrier' = FALSE
    /\ UNCHANGED <<clock, toggleUs, sendPulsesVars, sendCommandVars, sendFrameVars, historyVars,
                   setupVars>>

\* Submarine(): begin() fails, the error is printed, while (1) follows
ConstructFail ==
    /\ pc = "construct"
    /\ reported' = reported + 1
    /\ pc' = "halted"
    /\ UNCHANGED <<clock, carrier, toggleUs, sendPulsesVars, sendCommandVars, sendFrameVars, historyVars, setupVars>>

\* while (1);
Halted ==
    /\ pc = "halted"
    /\ UNCHANGED vars

\* a character with a case: sendCommand(command, 3000)
ReadCommand ==
    /\ pc = "read"
    /\ nCalls < MaxCalls
    /\ \E v \in SerialValues :
          /\ SwitchCommand(ToChar(v)) # NoCommand
          /\ read' = ToChar(v)
          /\ CallCommand(SwitchCommand(read'), LoopHoldMs)

\* any other value: no case, the loop reads again
ReadIgnored ==
    /\ pc = "read"
    /\ \E v \in SerialValues, tick \in IdleTicks :
          /\ SwitchCommand(ToChar(v)) = NoCommand
          /\ tick > 0 => nIdle < MaxIdle
          /\ read' = ToChar(v)
          /\ clock' = Add32(clock, tick)
          /\ sinceFrame' = GapAfter(sinceFrame, tick)
          /\ nIdle' = nIdle + (IF tick > 0 THEN 1 ELSE 0)
    /\ UNCHANGED <<pc, carrier, toggleUs, sendPulsesVars, sendCommandVars, sendFrameVars,
                   lastFrame, log, holdCount, elapsed, entryClock, nCalls, reported>>

\* break: back to Serial.read()
LoopBack ==
    /\ pc = "return"
    /\ pc' = "read"
    /\ DropLocals
    /\ UNCHANGED <<clock, carrier, toggleUs, sendPulsesVars, sendFrameVars, historyVars, setupVars, reported>>

setup == Construct \/ ConstructFail \/ Halted \/ ReadCommand \/ ReadIgnored \/ LoopBack

InitLocals ==
    /\ command = NoCommand
    /\ hold_time_ms = 0
    /\ frame = NoFrame
    /\ start_time = 0
    /\ i = 0
    /\ fpc = "none"
    /\ frameArg = NoFrame
    /\ currentPosition = 0
    /\ fi = 0
    /\ ret = "none"
    /\ via = "none"
    /\ pulses = <<>>
    /\ frameUs = 0
    /\ lastFrame = NoFrame
    /\ log = <<>>
    /\ holdCount = 0
    /\ elapsed = 0
    /\ entryClock = 0
    /\ nCalls = 0
    /\ nIdle = 0
    /\ reported = 0
    /\ carrier = FALSE
    /\ read = 0
    /\ ops = <<>>
    /\ sinceFrame = 0
    /\ ppc = "none"
    /\ pulseType = PULSE_SHORT
    /\ pulseCount = 0
    /\ pi = 0

\* the program at the start of setup, at power-up
Init ==
    /\ pc = "construct"
    /\ clock = 0
    /\ toggleUs \in ToggleTimes
    /\ InitLocals

Next == setup \/ sendCommand \/ sendFrame

Spec == Init /\ [][Next]_vars

----------------------------------------------------------------------------
(* sendCommand called with any command and hold time, at any clock reading *)

\* the enumerated commands, and values with several or all bits set
CallCommands == SubmarineCommand \cup {3, 127, 255}

\* hold times: none, the default, 100 ms, and a negative one
Holds == {0, DefaultHoldMs, 100, -1}

\* millis() at entry: after power-up, around 2^31 (where a long turns negative),
\* and shortly before the 32-bit wrap
EntryClocks == {0, 1000, MaxLong - 20, MaxLong - 120, -20, -60, -101, -120, -3040}

HarnessCall ==
    /\ pc = "harness"
    /\ \E c \in CallCommands, hold \in Holds : CallCommand(c, hold)
    /\ UNCHANGED read

HarnessReturn ==
    /\ pc = "return"
    /\ pc' = "done"
    /\ UNCHANGED <<clock, carrier, toggleUs, sendPulsesVars, sendCommandVars, sendFrameVars, historyVars,
                   setupVars, reported>>

InitCall ==
    /\ pc = "harness"
    /\ clock \in EntryClocks
    /\ toggleUs \in ToggleTimes
    /\ InitLocals

NextCall == HarnessCall \/ HarnessReturn \/ sendCommand \/ sendFrame

SpecCall == InitCall /\ [][NextCall]_vars

----------------------------------------------------------------------------
(* sendCommand followed to its return however long the hold loop runs: the     *)
(* passes of the loop up to the next reading of millis() that can change the   *)
(* loop condition are taken in one step                                        *)

\* milliseconds of one pass of the hold loop: delay(35) and sendFrame(frame),
\* which takes what the sendFrame(frame) call before it took
PassMs == InterFrameMs + FrameMs(frameUs)

\* The passes after which millis() first is not below the limit, where the limit
\* is the deadline when it lies in the same half of the unsigned range as
\* millis(), and 2^31 otherwise.  At every loop check before that, millis() is
\* below the limit and so below the deadline (compared as unsigned long).
PassesToLimit ==
    IF (clock >= 0) = (Deadline >= 0)
    THEN ((Deadline - clock - 1) \div PassMs) + 1
    ELSE ((MaxLong - clock) \div PassMs) + 1

\* the while condition holds: PassesToLimit passes of delay(35); sendFrame(frame)
HoldPasses ==
    /\ pc = "while"
    /\ HoldCondition
    /\ LET n == PassesToLimit
       IN  /\ clock' = Add32(Add32(clock, (n - 1) * PassMs), PassMs)
           /\ elapsed' = SatAdd(SatAdd(elapsed, (n - 1) * PassMs), PassMs)
           /\ holdCount' = SatAdd(holdCount, n)
    /\ lastFrame' = frame
    /\ sinceFrame' = 0
    /\ UNCHANGED <<pc, carrier, toggleUs, sendPulsesVars, sendCommandVars, sendFrameVars,
                   log, entryClock, nCalls, setupVars, reported>>

\* hold times: those of Holds and the one setup passes
TermHolds == Holds \cup {LoopHoldMs}

\* millis() at entry: those of EntryClocks, and readings that put the deadline
\* on the last value before the wrap
TermClocks == EntryClocks \cup {-1, -1 - LoopHoldMs}

HarnessCallTerm ==
    /\ pc = "harness"
    /\ \E c \in {STOP, FORWARD}, hold \in TermHolds : CallCommand(c, hold)
    /\ UNCHANGED read

InitTerm ==
    /\ pc = "harness"
    /\ clock \in TermClocks
    /\ toggleUs \in ToggleTimes
    /\ InitLocals

NextTerm ==
    \/ HarnessCallTerm \/ HarnessReturn
    \/ SendFirst \/ Delay1 \/ SendSecond
    \/ HoldPasses \/ HoldExit
    \/ StopDelay \/ sendStop \/ StopInc \/ StopExit
    \/ sendFrame

\* the program runs on: whenever it has a next step, it takes it
SpecTerm == InitTerm /\ [][NextTerm]_vars /\ WF_vars(NextTerm)

----------------------------------------------------------------------------
(* sendFrame called with any 16-bit frame *)

FrameInputs == 0..65535

HarnessFrame ==
    /\ pc = "frame_harness"
    /\ \E f \in FrameInputs : CallFrame(f, "frame_done", "harness")
    /\ UNCHANGED <<clock, carrier, toggleUs, sendPulsesVars, sendCommandVars, historyVars, setupVars, reported>>

InitFrame ==
    /\ pc = "frame_harness"
    /\ clock = 0
    /\ toggleUs = 0
    /\ InitLocals

NextFrame == HarnessFrame \/ sendFrame

SpecFrame == InitFrame /\ [][NextFrame]_vars

----------------------------------------------------------------------------
(* The codec alone: the entry of sendCommand for every 8-bit command value *)

HarnessEncode ==
    /\ pc = "codec_harness"
    /\ \E c \in 0..255 : CallCommand(c, DefaultHoldMs)
    /\ UNCHANGED read

InitCodec ==
    /\ pc = "codec_harness"
    /\ clock = 0
    /\ toggleUs = 0
    /\ InitLocals

NextCodec == HarnessEncode

SpecCodec == InitCodec /\ [][NextCodec]_vars

----------------------------------------------------------------------------
(* sendCommand called with every 8-bit command value, and followed to its return *)

\* hold times: the default, which lets no pass of the hold loop happen, and
\* 100 ms, which lets one happen
WireHolds == {DefaultHoldMs, 100}

HarnessWire ==
    /\ pc = "harness"
    /\ \E c \in 0..255, hold \in WireHolds : CallCommand(c, hold)
    /\ UNCHANGED read

InitWire ==
    /\ pc = "harness"
    /\ clock = 0
    /\ toggleUs = 0
    /\ InitLocals

NextWire == HarnessWire \/ HarnessReturn \/ sendCommand \/ sendFrame

SpecWire == InitWire /\ [][NextWire]_vars

----------------------------------------------------------------------------
(* sendPulses called with any pulse type and count *)

\* pulses followed in one call
MaxPulseCount == 4

\* the three pulse types of the source, a type without wait whose duration is
\* not 0, and a type with a wait of 0
PulseTypes ==
    {PULSE_SHORT, PULSE_LONG, PULSE_SYNC,
     [enableWait |-> FALSE, waitDuration |-> 900], [enableWait |-> TRUE, waitDuration |-> 0]}

\* pulseCount is an int: negative counts included
PulseCounts == -1..MaxPulseCount

HarnessPulses ==
    /\ pc = "pulses_harness"
    /\ \E type \in PulseTypes, count \in PulseCounts : CallPulses(type, count)
    /\ UNCHANGED <<pc, clock, carrier, toggleUs, sendCommandVars, fpc, frameArg, currentPosition,
                   fi, ret, via, pulses, frameUs, historyVars, setupVars, reported>>

InitPulses ==
    /\ pc = "pulses_harness"
    /\ clock = 0
    /\ toggleUs = 0
    /\ InitLocals

NextPulses == HarnessPulses \/ sendPulses

SpecPulses == InitPulses /\ [][NextPulses]_vars

----------------------------------------------------------------------------
(* Reading the log and the pulses *)

IsFrame(e) == e.kind = "frame"
IsDelay35(e) == e.kind = "delay" /\ e.value = 35
FrameEvents(l) == SelectSeq(l, IsFrame)
IsStopEvent(e) == e.kind = "frame" /\ e.via = "sendStop"
IsCommandEvent(e) == e.kind = "frame" /\ e.via = "sendCommand"
StopEvents(l) == SelectSeq(l, IsStopEvent)
CommandEvents(l) == SelectSeq(l, IsCommandEvent)

\* inside a sendCommand call, after its entry
InCall == command # NoCommand /\ pc \notin {"harness", "codec_harness", "read", "construct", "halted"}
\* the call has reached its return
Returned == command # NoCommand /\ pc \in {"return", "done"}
\* the enableOutputs() calls of a sequence of operations, without the waits
IsToggle(e) == e.op # "wait"
Toggles(os) == SelectSeq(os, IsToggle)

\* the number of pulses of one type in a sequence of pulses
CountPulses(ps, type) == Cardinality({k \in 1..Len(ps) : ps[k] = type})

\* millis() has wrapped past 2^32 since the call's entry
Wrapped == ULess(clock, entryClock)

\* pulses read as bits, LONG = 1 and SHORT = 0, first pulse most significant
RECURSIVE DecodePulses(_)
DecodePulses(ps) ==
    IF ps = <<>> THEN 0
    ELSE 2 * DecodePulses(SubSeq(ps, 1, Len(ps) - 1))
         + (IF ps[Len(ps)] = [enableWait |-> TRUE, waitDuration |-> 450] THEN 1 ELSE 0)

----------------------------------------------------------------------------
(* Claims *)

\* C1: a sendCommand call that has returned, for any command and hold time,
\* has sendStop transmit exactly 3 frames, each 0xFF00; its last six events are
\* delay(35), frame, delay(35), frame, delay(35), frame with these three
\* frames; and at any moment of any call, the sendStop frames are the last
\* frames transmitted (no other frame follows the first of them), each is
\* 0xFF00 and each comes right after a delay(35).
C1_StopSequence ==
    /\ InCall =>
          LET fs == FrameEvents(log)
              m == Len(StopEvents(log))
          IN  /\ \A k \in 1..Len(fs) :
                    IF k <= Len(fs) - m
                    THEN ~IsStopEvent(fs[k])
                    ELSE IsStopEvent(fs[k]) /\ fs[k].value = 65280
              /\ \A k \in 1..Len(log) :
                    IsStopEvent(log[k]) => (k > 1 /\ IsDelay35(log[k - 1]))
    /\ Returned =>
          LET n == Len(log)
          IN  /\ n >= 6
              /\ Len(StopEvents(log)) = 3
              /\ \A k \in {n - 4, n - 2, n} : IsStopEvent(log[k]) /\ log[k].value = 65280
              /\ \A k \in {n - 5, n - 3, n - 1} : IsDelay35(log[k])

\* C1 witness: a call of a motion command with a hold loop pass has returned
C1_Witness ==
    /\ Returned
    /\ command = 32
    /\ holdCount >= 1
    /\ Len(StopEvents(log)) = 3

\* C2: whenever the input loop is reading, the last frame transmitted is
\* 0xFF00, or none has been transmitted.
C2_IdleAfterStop == (pc = "read") => (lastFrame = NoFrame \/ lastFrame = 65280)

\* C2 witness: reading again after two calls, the last frame being the stop frame
C2_Witness == pc = "read" /\ nCalls = 2 /\ lastFrame = 65280

C4_RoundTrip == (pc = "frame_done") => DecodePulses(SubSeq(pulses, 3, 18)) = frameArg

\* C4 witness: the frame 0b1111110100000010 has been sent and decoded
C4_Witness ==
    /\ pc = "frame_done"
    /\ frameArg = 64770
    /\ DecodePulses(SubSeq(pulses, 3, 18)) = 64770

\* C5: for every 8-bit command value c, the frame sendCommand builds has low
\* byte c and high byte the complement of c: frame = (255 - c) * 256 + c.
C5_Complement ==
    (pc = "first") =>
       /\ frame % 256 = command
       /\ frame \div 256 = 255 - command
       /\ (frame \div 256) + (frame % 256) = 255
       /\ frame \in 0..65535

\* C5 witness: CMD2 (0x80) has been encoded as 0x7F80
C5_Witness == pc = "first" /\ command = 128 /\ frame = 32640

\* C6 (as claimed): every frame sendCommand(FORWARD, .) transmits before its
\* stop sequence is 0b1111110100000010 = 64770.
C6_Original ==
    (InCall /\ command = 1) =>
       \A k \in 1..Len(log) : IsCommandEvent(log[k]) => log[k].value = 64770

\* C6 (amended): every frame sendCommand(FORWARD, .) transmits before its stop
\* sequence is 0b1111111000000001 = 65025: low byte 0x01, high byte 0xFE.
C6_ForwardFrame ==
    (InCall /\ command = 1) =>
       /\ frame = 65025
       /\ frame % 256 = 1
       /\ frame \div 256 = 254
       /\ \A k \in 1..Len(log) : IsCommandEvent(log[k]) => log[k].value = 65025

\* C6 witness: sendCommand(FORWARD, .) has returned after sending its frames
C6_Witness ==
    /\ Returned
    /\ command = 1
    /\ Len(CommandEvents(log)) >= 2
    /\ log[1].value = 65025

\* C7 (as claimed): the frame sendCommand builds for STOP is 0x0000, and
\* differs from the 0xFF00 that sendStop transmits.
C7_Original ==
    (InCall /\ command = 0) => (frame = 0 /\ frame # 65280)

\* C7 (amended): the frame sendCommand builds for STOP is 0xFF00, the same
\* frame that sendStop transmits.
C7_StopEncoding ==
    (InCall /\ command = 0) =>
       /\ frame = 65280
       /\ \A k \in 1..Len(log) : IsStopEvent(log[k]) => log[k].value = frame

\* C7 witness: sendCommand(STOP, .) has returned, its sendStop frames sent
C7_Witness ==
    /\ Returned
    /\ command = 0
    /\ frame = 65280
    /\ Len(StopEvents(log)) = 3

\* C8: every frame sendCommand(STOP, h) transmits, for every h (the two
\* initial frames, the hold retransmissions, the three stop frames), is the
\* same 16 bits, those of the frame sendStop transmits: 0xFF00.
C8_StopIdempotent ==
    (InCall /\ command = 0) =>
       /\ \A k \in 1..Len(log) : IsFrame(log[k]) => log[k].value = 65280
       /\ (fpc # "none") => frameArg = 65280
       /\ lastFrame \in {NoFrame, 65280}

\* C8 witness: sendCommand(STOP, 100) has returned with initial, hold and
\* stop frames in its log
C8_Witness ==
    /\ Returned
    /\ command = 0
    /\ hold_time_ms = 100
    /\ holdCount >= 1
    /\ Len(CommandEvents(log)) >= 3
    /\ Len(StopEvents(log)) = 3

\* C9 (as claimed): with hold 0 or the default hold 10, less than the time
\* the two initial frames and the delay between them take, the hold loop
\* body never runs, and a returned call has transmitted exactly 2 command
\* frames followed by exactly 3 stop frames.
C9_NoHoldPass ==
    (InCall /\ hold_time_ms \in {0, 10}) =>
       /\ holdCount = 0
       /\ Returned =>
             /\ Len(CommandEvents(log)) = 2
             /\ Len(StopEvents(log)) = 3
             /\ Len(FrameEvents(log)) = 5

C11_Original ==
    (fpc # "none" /\ lastFrame # NoFrame) => sinceFrame >= 35

\* C11: whenever a frame is being transmitted that is not the first frame of its
\* sendCommand call, at least 35 ms were waited between the end of the frame
\* before it and its start.  (The first frame of a call is sent at once: after
\* the last stop frame of the call before it only the time the input loop took
\* has passed.)
C11_SpacingInCall ==
    (fpc # "none" /\ InCall /\ Len(log) > 0) => sinceFrame >= 35

\* C11 witness: in the second call from the input loop, a frame after the first
\* is being transmitted, 35 ms after the frame before it
C11_Witness ==
    /\ fpc # "none"
    /\ nCalls = 2
    /\ Len(log) > 0
    /\ sinceFrame = 35

\* C12: every sendCommand call, once entered, reaches its return.
C12_Terminates == (pc = "first") ~> (pc = "return")

\* C13: a step of the input loop that reads 'f', 'b', 'u', 'd', 'l' or 'r'
\* enters sendCommand once, with Forward (0x01), Back (0x02), Up (0x10), Down
\* (0x20), Left (0x04), Right (0x08) respectively and hold 3000 ms, and no
\* time has passed; a step that reads any other value, the -1 of an empty
\* buffer included, stays in the loop, and changes neither the carrier nor its
\* operations, starts no frame, calls no delay, and leaves the locals of
\* sendCommand and sendFrame and the count of calls as they were.
C13_InputLoop ==
    [][(pc = "read") =>
         LET cmd == CASE read' = 102 -> 1
                      [] read' = 98  -> 2
                      [] read' = 117 -> 16
                      [] read' = 100 -> 32
                      [] read' = 108 -> 4
                      [] read' = 114 -> 8
                      [] OTHER -> -1
         IN  IF cmd # -1
             THEN /\ pc' = "first"
                  /\ command' = cmd
                  /\ hold_time_ms' = 3000
                  /\ nCalls' = nCalls + 1
                  /\ clock' = clock
                  /\ UNCHANGED <<carrier, ops, fpc, lastFrame>>
             ELSE /\ pc' = "read"
                  /\ UNCHANGED <<carrier, ops, fpc, lastFrame, log, nCalls,
                                 sendCommandVars, sendFrameVars>>]_vars

\* C13 witness: after a value without a case was read, 'd' has been read and
\* sendCommand(DOWN, 3000) is entered
C13_Witness ==
    /\ pc = "first"
    /\ read = 100
    /\ command = 32
    /\ hold_time_ms = 3000
    /\ nIdle > 0

\* C14: once the constructor has printed the error, it has printed it exactly
\* once, the program is in while (1) and stays there, and from then on nothing
\* changes: the carrier is off and no carrier operation has been made, no frame
\* has been started or transmitted, no sendCommand call has been made and no
\* value has been read from Serial.
C14_HaltedForever ==
    /\ [](reported > 0 =>
            /\ pc = "halted"
            /\ reported = 1
            /\ carrier = FALSE
            /\ ops = <<>>
            /\ fpc = "none"
            /\ lastFrame = -1
            /\ log = <<>>
            /\ nCalls = 0
            /\ nIdle = 0
            /\ read = 0)
    /\ [][(pc = "halted" \/ reported > 0) => (pc' = "halted" /\ reported' = reported)]_vars

\* C14 witness: begin() has failed and the program is in while (1)
C14_Witness ==
    /\ pc = "halted"
    /\ reported = 1

\* C15: in a sendCommand call with a hold time of 0 or more, at whatever
\* millis() reading it was entered: the body of the hold loop runs only after a
\* loop check at which less than the hold time had truly elapsed since entry;
\* it runs at most ceil(hold / 35) times; and the loop is left only at a check
\* at which the hold time had elapsed.
C15_ElapsedGuard ==
    (InCall /\ hold_time_ms >= 0) =>
       /\ pc = "hold_send" => elapsed - 35 < hold_time_ms
       /\ holdCount <= (hold_time_ms + 34) \div 35
       /\ (pc = "stop" /\ i = 0) => elapsed >= hold_time_ms

\* C16: in a sendCommand call, for any command and hold time: every frame
\* sendCommand itself transmits (those before the stop sequence) is the frame
\* with the command in the low byte and its complement in the high byte; the
\* first event of the call is such a frame, with no wait before it; every
\* later one comes right after one delay(35) that follows a frame; and once the
\* stop sequence has begun there are at least 2 of them.
C16_CommandFrames ==
    InCall =>
       /\ \A k \in 1..Len(log) :
             IsCommandEvent(log[k]) =>
                /\ log[k].value = (255 - command) * 256 + command
                /\ \/ k = 1
                   \/ k >= 3 /\ IsDelay35(log[k - 1]) /\ IsFrame(log[k - 2])
       /\ Len(log) >= 1 => IsCommandEvent(log[1])
       /\ (\/ pc \in {"stop", "stop_send", "stop_inc", "return", "done"}
           \/ pc = "in_frame" /\ via = "sendStop")
             => Len(CommandEvents(log)) >= 2

\* C16 witness: a call of Up has returned after one pass of the hold loop, with
\* three frames of its command
C16_Witness ==
    /\ Returned
    /\ command = 16
    /\ holdCount = 1
    /\ Len(CommandEvents(log)) = 3

\* C17: a sendPulses(pulseType, pulseCount) call that has returned has made
\* these carrier operations and no others: for a type with enableWait, for each
\* of the pulseCount pulses (none if pulseCount <= 0), enable, wait
\* waitDuration, disable, wait waitDuration, in this order; for a type without
\* enableWait, for each pulse, enable, disable, and no wait.  LONG waits
\* 450 us, SYNC waits 900 us, SHORT has no wait.  (The operations are also
\* those sendFrame's pulses are counted with.)
C17_PulseOps ==
    /\ (ppc = "return") =>
          LET n == IF pulseCount > 0 THEN pulseCount ELSE 0
              d == pulseType.waitDuration
          IN  /\ IF pulseType.enableWait
                 THEN /\ Len(ops) = 4 * n
                      /\ \A j \in 0..(n - 1) :
                            /\ ops[4 * j + 1] = [op |-> "enable", us |-> 0]
                            /\ ops[4 * j + 2] = [op |-> "wait", us |-> d]
                            /\ ops[4 * j + 3] = [op |-> "disable", us |-> 0]
                            /\ ops[4 * j + 4] = [op |-> "wait", us |-> d]
                 ELSE /\ Len(ops) = 2 * n
                      /\ \A j \in 0..(n - 1) :
                            /\ ops[2 * j + 1] = [op |-> "enable", us |-> 0]
                            /\ ops[2 * j + 2] = [op |-> "disable", us |-> 0]
              /\ ops = SendPulsesOps(pulseType, pulseCount)
    /\ PULSE_LONG = [enableWait |-> TRUE, waitDuration |-> 450]
    /\ PULSE_SYNC = [enableWait |-> TRUE, waitDuration |-> 900]
    /\ PULSE_SHORT.enableWait = FALSE

\* C17 witness: sendPulses(PULSE_SYNC, 2) has returned after its 8 operations
C17_Witness ==
    /\ ppc = "return"
    /\ pulseType = [enableWait |-> TRUE, waitDuration |-> 900]
    /\ pulseCount = 2
    /\ Len(ops) = 8

\* C18: in every state after a successful construction: the carrier is off
\* (the model's states are those between sendPulses calls: before and after
\* every delay(35), at Serial.read(), and on return from sendPulses, sendFrame,
\* sendStop and sendCommand); the enableOutputs calls of the last sendPulses
\* call are enable, disable, enable, disable, ..., beginning with enable and
\* ending with disable, so that with the carrier off before and after every
\* call, enable and disable alternate over the whole run, beginning with
\* enable; and every enable is followed by its disable at once or after one
\* wait.
C18_CarrierDiscipline ==
    (pc \notin {"construct", "halted", "pulses_harness"}) =>
       /\ carrier = FALSE
       /\ LET t == Toggles(ops)
          IN  /\ Len(t) % 2 = 0
              /\ \A k \in 1..Len(t) : t[k].op = (IF k % 2 = 1 THEN "enable" ELSE "disable")
       /\ \A k \in 1..Len(ops) :
             ops[k].op = "enable" =>
                /\ k < Len(ops)
                /\ \/ ops[k + 1].op = "disable"
                   \/ /\ ops[k + 1].op = "wait"
                      /\ k + 1 < Len(ops)
                      /\ ops[k + 2].op = "disable"

\* C18 witness: in the second call from the input loop, sendPulses(PULSE_SYNC, 2)
\* has returned inside sendFrame, with two enables and two disables behind it
C18_Witness ==
    /\ nCalls = 2
    /\ fpc = "data"
    /\ Len(ops) = 8
    /\ Len(Toggles(ops)) = 4
    /\ carrier = FALSE

====
